---- MODULE Spec2Model ----
(***************************************************************************)
(* HCCeval.py: evaluation of a hierarchical clustering.                    *)
(*                                                                         *)
(* evalHCC loads a profile matrix and a cluster matrix, aligns the cluster *)
(* rows to the profile rows by entity ID, computes one silhouette score    *)
(* per level against a shared distance matrix (get_silhouette, units       *)
(* get_silhouette2 run by a process pool) and a level-by-level similarity  *)
(* matrix (get_similarity, units get_similarity2 run by the same pool).    *)
(*                                                                         *)
(* Conventions of the model:                                               *)
(*  - Python indexes from 0, the model from 1: level i1 of the source is   *)
(*    level i1+1 here, row k is row k+1.                                   *)
(*  - float64 scores are fixed-point integers in units of 1/10000:         *)
(*    1.0 is One, 0.999 is Cap.                                            *)
(*  - cluster is cluster.T of the source: a sequence of L level vectors,   *)
(*    each a sequence of N tags.                                           *)
(*  - pool.map(f, xs) is: the tasks enter the pool's queue in order, idle  *)
(*    workers take them in queue order, units finish in any order, each    *)
(*    result is stored at its task's position, and the caller resumes when *)
(*    every task has finished (with the first exception, if one raised).   *)
(*    The lists mapped here are short, so every chunk is one task.         *)
(***************************************************************************)
EXTENDS Integers, Sequences, FiniteSets, TLC

VARIABLES
    pc,            \* position of evalHCC
    profile_file,  \* column 0 of the profile file, as read
    cluster_file,  \* column 0 of the cluster file, as read
    profile_ids,   \* profile.T[0] after prepare_mat
    cluster_ids,   \* cluster.T[0] after prepare_mat
    aligned,       \* np.array(cluster_idx).T[1]: the cluster rows kept, in order
    profile,       \* allele value of each entity (one locus)
    cluster,       \* cluster.T after alignment and level selection
    method,        \* the similarity function handed to get_similarity
    seg,           \* the shared distance segment: "none", "open", "closed"
    dist0,         \* the distance matrix as the provider delivered it
    dist,          \* dist.dist, the contents of the shared segment
    applied,       \* how many times dist.dist += dist.dist.T has run
    tasks,         \* the units of the pool.map call in progress
    results,       \* the result list of the pool.map call in progress
    silhouette,    \* the silhouette vector
    similarity,    \* the similarity matrix
    i1,            \* loop index of get_similarity
    units,         \* how many similarity units were submitted per level pair
    evaluated      \* how many similarity units have been evaluated

vars == <<pc, profile_file, cluster_file, profile_ids, cluster_ids, aligned,
          profile, cluster, method, seg, dist0, dist, applied, tasks, results,
          silhouette, similarity, i1, units, evaluated>>

alignVars == <<profile_file, cluster_file, profile_ids, cluster_ids, aligned>>
inputVars == <<profile, cluster, method>>

----------------------------------------------------------------------------
(* Bounds of the model *)

\* entities (rows) per matrix in the evaluation
MaxN == 3
\* retained levels
MaxL == 3
\* rows per input file in the alignment
MaxRows == 2
\* largest entity ID in an input file
MaxId == 2
\* dimension of the matrices the symmetrization is tried on
SymDim == 2
\* largest distance in those matrices
MaxDist == 2
\* times the symmetrization step is applied in a row
MaxApply == 2

----------------------------------------------------------------------------
(* Program constants *)

\* Pool(10)
PoolWidth == 10
\* 1.0 in units of 1/10000
One == 10000
\* 0.999 in units of 1/10000
Cap == 9990

----------------------------------------------------------------------------
(* Helpers *)

RECURSIVE SumOver(_, _)
SumOver(f, S) ==
    IF S = {} THEN 0
    ELSE LET x == CHOOSE y \in S : TRUE
         IN  f[x] + SumOver(f, S \ {x})

Max2(a, b) == IF a >= b THEN a ELSE b

\* np.unique(v).size
UniqueSize(v) == Cardinality({v[k] : k \in DOMAIN v})

SeqsUpTo(S, n) == UNION {[1..k -> S] : k \in 0..n}

----------------------------------------------------------------------------
(* evalHCC: loading and alignment *)

\* mat = mat[mat.T[0]>0], seen on column 0
prepare_mat(ids) == SelectSeq(ids, LAMBDA x : x > 0)

\* idx = { p:i for i, p in enumerate(profile.T[0]) }: a later row replaces an
\* earlier one with the same ID
idx(p_ids) ==
    [p \in {p_ids[k] : k \in 1..Len(p_ids)} |->
        CHOOSE k \in 1..Len(p_ids) :
            /\ p_ids[k] = p
            /\ \A k2 \in 1..Len(p_ids) : p_ids[k2] = p => k2 <= k]

\* list order of Python: [a, b] <= [c, d]
PairLeq(a, b) == a[1] < b[1] \/ (a[1] = b[1] /\ a[2] <= b[2])

\* sorted(...) of a set of pairs
RECURSIVE sorted(_)
sorted(S) ==
    IF S = {} THEN <<>>
    ELSE LET m == CHOOSE a \in S : \A b \in S : PairLeq(a, b)
         IN  <<m>> \o sorted(S \ {m})

\* sorted([ [idx.get(c, -1), i] for i, c in enumerate(cluster.T[0]) if c in idx ])
cluster_idx(p_ids, c_ids) ==
    LET ix == idx(p_ids)
    IN  sorted({<<ix[c_ids[i]], i>> : i \in {k \in 1..Len(c_ids) : c_ids[k] \in DOMAIN ix}})

\* the pipeline has not started: every variable of the computation is empty
EvalIdle ==
    /\ profile = <<>> /\ cluster = <<>> /\ method = "none"
    /\ seg = "none" /\ dist0 = <<>> /\ dist = <<>> /\ applied = 0
    /\ tasks = <<>> /\ results = <<>>
    /\ silhouette = <<>> /\ similarity = <<>>
    /\ i1 = 0 /\ units = <<>> /\ evaluated = 0

evalVars == <<profile, cluster, method, seg, dist0, dist, applied, tasks,
              results, silhouette, similarity, i1, units, evaluated>>

InitAlign ==
    /\ pc = "load"
    /\ profile_file \in SeqsUpTo(0..MaxId, MaxRows)
    /\ cluster_file \in SeqsUpTo(0..MaxId, MaxRows)
    /\ profile_ids = <<>> /\ cluster_ids = <<>> /\ aligned = <<>>
    /\ EvalIdle

\* profile = prepare_mat(args.profile); cluster = prepare_mat(args.cluster)
Load ==
    /\ pc = "load"
    /\ profile_ids' = prepare_mat(profile_file)
    /\ cluster_ids' = prepare_mat(cluster_file)
    /\ pc' = "align"
    /\ UNCHANGED <<profile_file, cluster_file, aligned>>
    /\ UNCHANGED evalVars

\* lines 81-84: build idx and cluster_idx, reorder the cluster rows, assert the
\* row counts agree. np.array([]).T[1] raises IndexError when no row is kept.
Align ==
    /\ pc = "align"
    /\ LET ci == cluster_idx(profile_ids, cluster_ids)
           kept == [k \in 1..Len(ci) |-> ci[k][2]]
       IN  IF ci = <<>>
           THEN /\ pc' = "abort"
                /\ aligned' = aligned
           ELSE /\ aligned' = kept
                /\ pc' = IF Len(kept) = Len(profile_ids) THEN "compute" ELSE "abort"
    /\ UNCHANGED <<profile_file, cluster_file, profile_ids, cluster_ids>>
    /\ UNCHANGED evalVars

NextAlign == Load \/ Align

SpecAlign == InitAlign /\ [][NextAlign]_vars

\* C7: whenever evalHCC gets past the alignment and starts computing, the
\* aligned cluster matrix has as many rows as the profile matrix and row k of
\* both belongs to the same entity ID; every other input aborts first.
C7_AlignedRowsMatch ==
    pc = "compute" =>
        /\ Len(aligned) = Len(profile_ids)
        /\ \A k \in 1..Len(aligned) : cluster_ids[aligned[k]] = profile_ids[k]

----------------------------------------------------------------------------
(* get_silhouette: the symmetrization of the shared distance matrix *)

SquareMatrices(n, V) == [1..n -> [1..n -> V]]

IsSymmetric(D) == \A i \in DOMAIN D : \A j \in DOMAIN D : D[i][j] = D[j][i]

\* a symmetrization that completes the lower triangle from the upper one
symmetrize_fill(D) ==
    [i \in DOMAIN D |-> [j \in DOMAIN D |-> IF i <= j THEN D[i][j] ELSE D[j][i]]]

\* dist.dist += dist.dist.T  (numpy buffers the overlapping operand, so every
\* entry becomes the sum of the old entry and its mirror). The entries are
\* np.int32; the distances of the model stay far below 2^30, where the sum
\* would wrap.
symmetrize(D) ==
    [i \in DOMAIN D |-> [j \in DOMAIN D |-> D[i][j] + D[j][i]]]

InitSym ==
    /\ pc = "symmetrize"
    /\ dist0 \in SquareMatrices(SymDim, 0..MaxDist)
    /\ dist = dist0
    /\ applied = 0
    /\ seg = "open"
    /\ profile_file = <<>> /\ cluster_file = <<>>
    /\ profile_ids = <<>> /\ cluster_ids = <<>> /\ aligned = <<>>
    /\ profile = <<>> /\ cluster = <<>> /\ method = "none"
    /\ tasks = <<>> /\ results = <<>>
    /\ silhouette = <<>> /\ similarity = <<>>
    /\ i1 = 0 /\ units = <<>> /\ evaluated = 0

\* one run of line 40 on the segment's contents
ApplySymmetrize ==
    /\ pc = "symmetrize"
    /\ applied < MaxApply
    /\ dist' = symmetrize(dist)
    /\ applied' = applied + 1
    /\ UNCHANGED <<pc, seg, dist0, tasks, results, silhouette, similarity,
                   i1, units, evaluated>>
    /\ UNCHANGED alignVars
    /\ UNCHANGED inputVars

NextSym == ApplySymmetrize

SpecSym == InitSym /\ [][NextSym]_vars

\* C6 (as claimed): the symmetrization step is idempotent,
\* symmetrize(symmetrize(D)) == symmetrize(D).
C6_SymmetrizeIdempotent ==
    applied = 2 => dist = symmetrize(dist0)

\* C6 (amended): the step adds the transpose, so its result is symmetric and a
\* second application doubles every value of the first one's result; applied to
\* an already-symmetric matrix it doubles every value.
C6_SymmetrizeDoubles ==
    /\ applied >= 1 => IsSymmetric(dist)
    /\ applied = 1 /\ IsSymmetric(dist0) =>
           \A i \in DOMAIN dist : \A j \in DOMAIN dist :
               dist[i][j] = 2 * dist0[i][j]
    /\ applied = 2 =>
           \A i \in DOMAIN dist : \A j \in DOMAIN dist :
               dist[i][j] = 2 * symmetrize(dist0)[i][j]

\* C6 witness: the step has run twice on a matrix that was delivered
\* asymmetric, and the second run changed a value
C6_Witness ==
    /\ applied = 2
    /\ ~IsSymmetric(dist0)
    /\ dist # symmetrize(dist0)

----------------------------------------------------------------------------
(* The inputs of the computation *)

\* level vectors of n tags: one cluster; the first entity apart; the last
\* entity apart; two alternating clusters; every entity its own cluster
LevelVecs(n) ==
    { [k \in 1..n |-> 1],
      [k \in 1..n |-> IF k = 1 THEN 1 ELSE 2],
      [k \in 1..n |-> IF k = n THEN 2 ELSE 1],
      [k \in 1..n |-> 2 - (k % 2)],
      [k \in 1..n |-> k] }

\* profiles of n entities at one locus: alternating alleles, or all distinct
Profiles(n) == {[k \in 1..n |-> 1 + (k % 2)], [k \in 1..n |-> k]}

\* the similarity functions tried as `method`
Methods == {"match", "skew"}

\* method(cc1, cc2): "match" is the share of entities with equal tags, in
\* [0.0, 1.0]; "skew" is asymmetric and leaves [0.0, 1.0] on both sides
\* (0.9995 + 1.2 * (distinct tags of cc1 - distinct tags of cc2))
method_call(m, cc1, cc2) ==
    IF m = "match"
    THEN (One * Cardinality({k \in DOMAIN cc1 : cc1[k] = cc2[k]})) \div Len(cc1)
    ELSE 9995 + 12000 * (UniqueSize(cc1) - UniqueSize(cc2))

\* getDistance(profile, 'p_dist', pool).dist: the number of differing alleles
\* of each pair, delivered in the upper triangle only
getDistance(prof) ==
    [i \in DOMAIN prof |-> [j \in DOMAIN prof |->
        IF i < j /\ prof[i] # prof[j] THEN 1 ELSE 0]]

----------------------------------------------------------------------------
(* The units *)

\* get_similarity2([method, cc1, cc2]): the value returned and whether method
\* was invoked
get_similarity2(m, cc1, cc2) ==
    IF UniqueSize(cc1) = 1 /\ UniqueSize(cc1) = 1
    THEN [val |-> One, called |-> FALSE]
    ELSE [val |-> method_call(m, cc1, cc2), called |-> TRUE]

\* a guard that lets the all-distinct level through
attaches_inclusive(tag) == 2 <= UniqueSize(tag) /\ UniqueSize(tag) <= Len(tag)

\* get_silhouette2: 2 <= s.size < tag.shape[0]
attaches(tag) == 2 <= UniqueSize(tag) /\ UniqueSize(tag) < Len(tag)

\* sklearn.metrics.silhouette_score(D, tag, metric='precomputed'): the mean over
\* the samples of (b - a) / max(a, b), a the mean distance to the other members
\* of the sample's cluster, b the smallest mean distance to another cluster;
\* 0 for a sample alone in its cluster and where max(a, b) is 0. Rounded down
\* to 1/10000 per sample and for the mean.
silhouette_score(D, tag) ==
    LET N == Len(tag)
        Members(c) == {j \in 1..N : tag[j] = c}
        Tags == {tag[j] : j \in 1..N}
        sample(i) ==
            LET own == Members(tag[i])
                an == SumOver(D[i], own)
                ad == Cardinality(own) - 1
                others == Tags \ {tag[i]}
                near == CHOOSE c \in others : \A c2 \in others :
                            SumOver(D[i], Members(c)) * Cardinality(Members(c2))
                                <= SumOver(D[i], Members(c2)) * Cardinality(Members(c))
                bn == SumOver(D[i], Members(near))
                bd == Cardinality(Members(near))
                top == bn * ad - an * bd
                bot == Max2(an * bd, bn * ad)
            IN  IF ad = 0 \/ bot = 0 THEN 0 ELSE (One * top) \div bot
        total == SumOver([i \in 1..N |-> sample(i)], 1..N)
    IN  total \div N

----------------------------------------------------------------------------
(* The pool *)

\* a task as pool.map queues it: arg is the level the unit is given (the level
\* of the silhouette unit, the level of cc2 of the similarity unit); opened is
\* whether the unit attached to the distance segment, att whether it still
\* holds the attachment, called whether it invoked the metric
NewTask(a) ==
    [arg |-> a, st |-> "pending", opened |-> FALSE, att |-> FALSE, called |-> FALSE]

Finished(t) == t.st \in {"done", "raised"}

\* workers busy with a unit
Busy == Cardinality({t \in DOMAIN tasks : tasks[t].st \in {"running", "attached"}})

\* the next task of the queue goes to an idle worker
CanTake(t) ==
    /\ t \in DOMAIN tasks
    /\ tasks[t].st = "pending"
    /\ \A t2 \in 1..(t - 1) : tasks[t2].st # "pending"
    /\ Busy < PoolWidth

\* a gather that appends each result as it arrives
ResultSlotArrival(t, res) == 1 + Cardinality({r \in DOMAIN res : res[r] # <<>>})

\* pool.map returns the results in the order of the tasks: the result of task
\* t is stored at position t, whenever it arrives
ResultSlot(t, res) == t

----------------------------------------------------------------------------
(* get_silhouette *)

L == Len(cluster)

InitEval ==
    /\ pc = "compute"
    /\ \E n \in 1..MaxN : \E l \in 1..MaxL :
          /\ cluster \in [1..l -> LevelVecs(n)]
          /\ profile \in Profiles(n)
    /\ method \in Methods
    /\ seg = "none" /\ dist0 = <<>> /\ dist = <<>> /\ applied = 0
    /\ tasks = <<>> /\ results = <<>>
    /\ silhouette = <<>> /\ similarity = <<>>
    /\ i1 = 0 /\ evaluated = 0
    /\ units = [p \in (1..L) \X (1..L) |-> 0]
    /\ profile_file = <<>> /\ cluster_file = <<>>
    /\ profile_ids = <<>> /\ cluster_ids = <<>> /\ aligned = <<>>

\* lines 39-42: enter the with block (the provider fills the segment), add the
\* transpose, submit one silhouette unit per level
SilSubmit ==
    /\ pc = "compute"
    /\ seg' = "open"
    /\ dist0' = getDistance(profile)
    /\ dist' = symmetrize(dist0')
    /\ applied' = 1
    /\ tasks' = [k \in 1..L |-> NewTask(k)]
    /\ results' = [k \in 1..L |-> <<>>]
    /\ pc' = "sil_map"
    /\ UNCHANGED <<silhouette, similarity, i1, units, evaluated>>
    /\ UNCHANGED alignVars
    /\ UNCHANGED inputVars

\* get_silhouette2, lines 46-49 and 54-55: a worker takes the unit; a
\* degenerate level returns 0.0 at once, any other attaches to the segment
SilBegin(t) ==
    /\ pc = "sil_map"
    /\ CanTake(t)
    /\ IF attaches(cluster[tasks[t].arg])
       THEN /\ tasks' = [tasks EXCEPT ![t].st = "attached",
                                      ![t].opened = TRUE,
                                      ![t].att = TRUE]
            /\ results' = results
       ELSE /\ tasks' = [tasks EXCEPT ![t].st = "done"]
            /\ results' = [results EXCEPT ![ResultSlot(t, results)] = <<0>>]
    /\ UNCHANGED <<pc, seg, dist0, dist, applied, silhouette, similarity, i1,
                   units, evaluated>>
    /\ UNCHANGED alignVars
    /\ UNCHANGED inputVars

\* get_silhouette2, lines 50-53: the score is computed, the unit detaches and
\* returns
SilScore(t) ==
    /\ pc = "sil_map"
    /\ t \in DOMAIN tasks
    /\ tasks[t].st = "attached"
    /\ tasks' = [tasks EXCEPT ![t].st = "done", ![t].called = TRUE, ![t].att = FALSE]
    /\ results' = [results EXCEPT ![ResultSlot(t, results)] =
                      <<silhouette_score(dist, cluster[tasks[t].arg])>>]
    /\ UNCHANGED <<pc, seg, dist0, dist, applied, silhouette, similarity, i1,
                   units, evaluated>>
    /\ UNCHANGED alignVars
    /\ UNCHANGED inputVars

\* get_silhouette2, lines 50-51: building the view or computing the score
\* raises; the exception leaves the unit before line 52
SilRaise(t) ==
    /\ pc = "sil_map"
    /\ t \in DOMAIN tasks
    /\ tasks[t].st = "attached"
    /\ tasks' = [tasks EXCEPT ![t].st = "raised", ![t].called = TRUE]
    /\ UNCHANGED <<pc, seg, dist0, dist, applied, results, silhouette,
                   similarity, i1, units, evaluated>>
    /\ UNCHANGED alignVars
    /\ UNCHANGED inputVars

\* lines 42-43: every unit returned; the vector is built, the with block ends
SilGather ==
    /\ pc = "sil_map"
    /\ \A t \in DOMAIN tasks : tasks[t].st = "done"
    /\ silhouette' = [k \in 1..L |-> results[k][1]]
    /\ seg' = "closed"
    /\ pc' = "get_similarity"
    /\ UNCHANGED <<dist0, dist, applied, tasks, results, similarity, i1, units,
                   evaluated>>
    /\ UNCHANGED alignVars
    /\ UNCHANGED inputVars

\* line 42: pool.map re-raises a unit's exception once every unit has
\* finished; the with block ends and evalHCC fails
SilFail ==
    /\ pc = "sil_map"
    /\ \A t \in DOMAIN tasks : Finished(tasks[t])
    /\ \E t \in DOMAIN tasks : tasks[t].st = "raised"
    /\ seg' = "closed"
    /\ pc' = "failed"
    /\ UNCHANGED <<dist0, dist, applied, tasks, results, silhouette, similarity,
                   i1, units, evaluated>>
    /\ UNCHANGED alignVars
    /\ UNCHANGED inputVars

----------------------------------------------------------------------------
(* get_similarity *)

\* a partition that also pairs a level with itself
RowTargetsFromSelf(i, l) == [t \in 1..(l - i + 1) |-> i + t - 1]

\* cluster.T[i1+1:]: the levels paired with level i, in order
RowTargets(i, l) == [t \in 1..(l - i) |-> i + t]

\* similarity[i1, i1+1:] = <the results of the row>
WriteRow(sim, i, res) ==
    [sim EXCEPT ![i] = [j \in DOMAIN sim |-> IF j > i THEN res[j - i][1] ELSE sim[i][j]]]

\* an assembly that leaves the lower triangle as it is
MirrorRowSkipped(sim, i) == sim

\* similarity[i1+1:, i1] = similarity[i1, i1+1:]
MirrorRow(sim, i) ==
    [r \in DOMAIN sim |-> IF r > i THEN [sim[r] EXCEPT ![i] = sim[i][r]] ELSE sim[r]]

\* lines 33-34 on one value
clampv(v) == IF v > Cap THEN Cap ELSE IF v < 0 THEN 0 ELSE v

\* a clamp that spares the diagonal
clamp_offdiag(sim) ==
    [i \in DOMAIN sim |-> [j \in DOMAIN sim |-> IF i = j THEN sim[i][j] ELSE clampv(sim[i][j])]]

\* a clamp without the lower limit
clamp_upper(sim) ==
    [i \in DOMAIN sim |-> [j \in DOMAIN sim |-> IF sim[i][j] > Cap THEN Cap ELSE sim[i][j]]]

\* lines 33-34: similarity[similarity>0.999] = 0.999; similarity[similarity<0.0] = 0.0
clamp(sim) == [i \in DOMAIN sim |-> [j \in DOMAIN sim |-> clampv(sim[i][j])]]

\* line 27: similarity = np.ones([L, L])
SimInit ==
    /\ pc = "get_similarity"
    /\ similarity' = [i \in 1..L |-> [j \in 1..L |-> One]]
    /\ i1' = 1
    /\ pc' = "sim_loop"
    /\ UNCHANGED <<seg, dist0, dist, applied, tasks, results, silhouette, units,
                   evaluated>>
    /\ UNCHANGED alignVars
    /\ UNCHANGED inputVars

\* lines 28 and 31: the next level cc1, and one unit submitted per later level
SimSubmit ==
    /\ pc = "sim_loop"
    /\ i1 <= L
    /\ LET row == RowTargets(i1, L)
       IN  /\ tasks' = [t \in DOMAIN row |-> NewTask(row[t])]
           /\ results' = [t \in DOMAIN row |-> <<>>]
           /\ units' = [p \in DOMAIN units |->
                           units[p] + Cardinality({t \in DOMAIN row : p = <<i1, row[t]>>})]
    /\ pc' = "sim_map"
    /\ UNCHANGED <<seg, dist0, dist, applied, silhouette, similarity, i1, evaluated>>
    /\ UNCHANGED alignVars
    /\ UNCHANGED inputVars

\* a worker takes the next similarity unit
SimBegin(t) ==
    /\ pc = "sim_map"
    /\ CanTake(t)
    /\ tasks' = [tasks EXCEPT ![t].st = "running"]
    /\ UNCHANGED <<pc, seg, dist0, dist, applied, results, silhouette,
                   similarity, i1, units, evaluated>>
    /\ UNCHANGED alignVars
    /\ UNCHANGED inputVars

\* get_similarity2 returns
SimFinish(t) ==
    /\ pc = "sim_map"
    /\ t \in DOMAIN tasks
    /\ tasks[t].st = "running"
    /\ LET r == get_similarity2(method, cluster[i1], cluster[tasks[t].arg])
       IN  /\ tasks' = [tasks EXCEPT ![t].st = "done", ![t].called = r.called]
           /\ results' = [results EXCEPT ![ResultSlot(t, results)] = <<r.val>>]
    /\ evaluated' = evaluated + 1
    /\ UNCHANGED <<pc, seg, dist0, dist, applied, silhouette, similarity, i1, units>>
    /\ UNCHANGED alignVars
    /\ UNCHANGED inputVars

\* lines 31-32: the row's results are written and mirrored; next level
SimGather ==
    /\ pc = "sim_map"
    /\ \A t \in DOMAIN tasks : tasks[t].st = "done"
    /\ similarity' = MirrorRow(WriteRow(similarity, i1, results), i1)
    /\ i1' = i1 + 1
    /\ pc' = "sim_loop"
    /\ UNCHANGED <<seg, dist0, dist, applied, tasks, results, silhouette, units,
                   evaluated>>
    /\ UNCHANGED alignVars
    /\ UNCHANGED inputVars

\* lines 33-35: the loop is over; clamp and return
SimClamp ==
    /\ pc = "sim_loop"
    /\ i1 = L + 1
    /\ similarity' = clamp(similarity)
    /\ pc' = "done"
    /\ UNCHANGED <<seg, dist0, dist, applied, tasks, results, silhouette, i1,
                   units, evaluated>>
    /\ UNCHANGED alignVars
    /\ UNCHANGED inputVars

NextEval ==
    \/ SilSubmit
    \/ \E t \in 1..MaxL : SilBegin(t)
    \/ \E t \in 1..MaxL : SilScore(t)
    \/ \E t \in 1..MaxL : SilRaise(t)
    \/ SilGather
    \/ SilFail
    \/ SimInit
    \/ SimSubmit
    \/ \E t \in 1..MaxL : SimBegin(t)
    \/ \E t \in 1..MaxL : SimFinish(t)
    \/ SimGather
    \/ SimClamp

Spec == InitEval /\ [][NextEval]_vars

----------------------------------------------------------------------------
(* Properties *)

Levels == 1..L
Pairs == {p \in Levels \X Levels : p[1] < p[2]}

\* what the unit of a level pair returns
UnitValue(i, j) == get_similarity2(method, cluster[i], cluster[j]).val

\* what the unit of a level returns
LevelValue(k) ==
    IF attaches(cluster[k]) THEN silhouette_score(dist, cluster[k]) ELSE 0

\* C1: the matrix get_similarity returns is symmetric.
C1_Symmetric ==
    pc = "done" =>
        \A i \in Levels : \A j \in Levels : similarity[i][j] = similarity[j][i]

\* C1 witness: a returned matrix of three levels whose pairs do not all score
\* the same
C1_Witness ==
    /\ pc = "done"
    /\ L = 3
    /\ \E p \in Pairs : \E q \in Pairs : similarity[p[1]][p[2]] # similarity[q[1]][q[2]]

\* C2 (as claimed): after the clamp every diagonal entry is exactly 1.0.
C2_DiagonalOne ==
    pc = "done" => \A i \in Levels : similarity[i][i] = One

\* C2 (amended): the diagonal is 1.0 while the rows are being assembled, and
\* the final clamp lowers it with every other value above 0.999: every diagonal
\* entry of the returned matrix is exactly 0.999.
C2_DiagonalCap ==
    /\ pc \in {"sim_loop", "sim_map"} => \A i \in Levels : similarity[i][i] = One
    /\ pc = "done" => \A i \in Levels : similarity[i][i] = Cap

\* C2 witness: a returned matrix with an off-diagonal entry that differs from
\* the diagonal
C2_Witness ==
    /\ pc = "done"
    /\ L >= 2
    /\ \E p \in Pairs : similarity[p[1]][p[2]] # similarity[p[1]][p[1]]

\* C3: every off-diagonal entry of the returned matrix lies in [0.0, 0.999],
\* whatever the units returned.
C3_Range ==
    pc = "done" =>
        \A i \in Levels : \A j \in Levels :
            i # j => 0 <= similarity[i][j] /\ similarity[i][j] <= Cap

\* C3 witness: a returned matrix one of whose units returned less than 0.0 and
\* another more than 1.0
C3_Witness ==
    /\ pc = "done"
    /\ \E p \in Pairs : UnitValue(p[1], p[2]) < 0
    /\ \E p \in Pairs : UnitValue(p[1], p[2]) > One

\* C4: a similarity unit returns 1.0 without invoking method whenever either
\* of its two vectors has exactly one distinct tag, and method(cc1, cc2)
\* otherwise.
C4_SentinelEitherSingle ==
    pc = "sim_map" =>
        \A t \in DOMAIN tasks :
            tasks[t].st = "done" =>
                LET cc1 == cluster[i1]
                    cc2 == cluster[tasks[t].arg]
                IN  IF UniqueSize(cc1) = 1 \/ UniqueSize(cc2) = 1
                    THEN results[t] = <<One>> /\ ~tasks[t].called
                    ELSE results[t] = <<method_call(method, cc1, cc2)>> /\ tasks[t].called

\* C5: a silhouette unit on N tags with s distinct tags returns 0.0 without
\* attaching or invoking the metric when s = 1 or s = N, and attaches and
\* invokes the metric exactly when 2 <= s < N.
C5_SilhouetteGuard ==
    pc = "sil_map" =>
        \A t \in DOMAIN tasks :
            LET tag == cluster[tasks[t].arg]
                s == UniqueSize(tag)
                mid == 2 <= s /\ s < Len(tag)
            IN  /\ mid \/ s = 1 \/ s = Len(tag)
                /\ tasks[t].st # "pending" => tasks[t].opened = mid
                /\ Finished(tasks[t]) => tasks[t].called = mid
                /\ tasks[t].st = "done" /\ (s = 1 \/ s = Len(tag)) => results[t] = <<0>>

\* C5 witness: units of a one-cluster level and of an all-distinct level have
\* returned 0.0, and the unit of a level in between has attached and scored
C5_Witness ==
    /\ pc = "sil_map"
    /\ \E t \in DOMAIN tasks :
          tasks[t].st = "done" /\ UniqueSize(cluster[t]) = 1 /\ Len(cluster[t]) >= 3
    /\ \E t \in DOMAIN tasks :
          tasks[t].st = "done" /\ UniqueSize(cluster[t]) = Len(cluster[t])
    /\ \E t \in DOMAIN tasks :
          tasks[t].st = "done" /\ tasks[t].opened /\ tasks[t].called

\* C8: get_similarity submits exactly one unit for every pair i < j and none
\* for any other pair, so L*(L-1)/2 units are evaluated in a run.
C8_UpperTriangleOnce ==
    /\ \A p \in DOMAIN units :
          units[p] <= (IF p[1] < p[2] THEN 1 ELSE 0)
    /\ pc = "done" =>
          /\ \A p \in DOMAIN units : units[p] = (IF p[1] < p[2] THEN 1 ELSE 0)
          /\ 2 * evaluated = L * (L - 1)

\* C8 witness: a finished run over three levels
C8_Witness ==
    /\ pc = "done"
    /\ L = 3
    /\ evaluated = 3

\* C9: under every completion order each result is attributed to the unit that
\* produced it: silhouette[k] is the value of level k, similarity[i][j] before
\* the clamp is the value of the pair (i, j).
C9_ResultsAttributed ==
    /\ pc = "sil_map" =>
          \A t \in DOMAIN tasks :
              tasks[t].st = "done" => results[t] = <<LevelValue(t)>>
    /\ pc \in {"get_similarity", "sim_loop", "sim_map", "done"} =>
          \A k \in Levels : silhouette[k] = LevelValue(k)
    /\ pc = "sim_map" =>
          \A t \in DOMAIN tasks :
              tasks[t].st = "done" => results[t] = <<UnitValue(i1, i1 + t)>>
    /\ pc \in {"sim_loop", "sim_map"} =>
          \A p \in Pairs : p[1] < i1 => similarity[p[1]][p[2]] = UnitValue(p[1], p[2])
    /\ pc = "done" =>
          \A p \in Pairs : similarity[p[1]][p[2]] = clampv(UnitValue(p[1], p[2]))

\* C9 witness: a later similarity unit has returned while an earlier one of
\* the same row, worth another value, is still running, after a silhouette
\* vector with different scores was assembled
C9_Witness ==
    /\ pc = "sim_map"
    /\ \E t \in DOMAIN tasks : \E t2 \in DOMAIN tasks :
          /\ t < t2
          /\ tasks[t].st = "running"
          /\ tasks[t2].st = "done"
          /\ UnitValue(i1, i1 + t) # UnitValue(i1, i1 + t2)
    /\ \E k \in Levels : \E k2 \in Levels : silhouette[k] # silhouette[k2]

\* C10: a silhouette unit that attached to the distance segment has detached
\* when it returns or raises.
C10_DetachOnEveryExit ==
    \A t \in DOMAIN tasks : Finished(tasks[t]) => ~tasks[t].att

====
